---- MODULE Spec2Model ----
(***************************************************************************)
(* Model of the Nand2Tetris VM translators of projects 07 and 08.          *)
(*                                                                         *)
(* The translators turn one VM command into a list of Hack assembly lines. *)
(* The model keeps the lines as the translators build them (an A-line      *)
(* '@' + text, a label line '(' + text + ')', or a C-instruction text),    *)
(* assembles them (symbols resolved, labels removed) and runs them on a    *)
(* Hack CPU with WordBits-bit words, one instruction per step.             *)
(***************************************************************************)
EXTENDS Integers, Sequences, FiniteSets, TLC

VARIABLES
    \* the translator
    proj,       \* which translator runs: "07" (vm_translator.py) or "08" (VMTranslator.py)
    comp_counters,  \* the translator's per-kind comparison counters
    function_count, \* VMFunctionTranslator.function_count
    call_count,     \* VMFunctionTranslator.call_count
    \* the Hack machine running the lines of one command
    phase,      \* "idle" (nothing translated yet), "run", "done", "error"; "off": no machine
    cmd,        \* parts of the command being executed (VMCommand.parts)
    lines,      \* the lines the translator emitted for cmd
    ram,        \* Hack data memory
    regA,       \* Hack A register
    regD,       \* Hack D register
    pc,         \* Hack program counter (index into the assembled lines)
    pre,        \* data memory when cmd started
    written,    \* addresses written since cmd started
    visits,     \* how often each instruction address was executed since cmd started
    \* the main program (project 08: a file or a directory; project 07: a file)
    main_pc,    \* "for", "while", "end", "raised"; "off": no main program
    input_kind, \* "file" or "dir": what sys.argv[1] names
    vm_files,   \* the input files, in the order of the for loop
    file_no,    \* how many files the for loop has finished
    read_pos,   \* how many lines of the current file have been read
    current_command,    \* VMParser.current_command
    next_command,       \* VMParser.next_command
    has_more_commands,  \* VMParser.has_more_commands
    presented,  \* the lines advance() has made the current command, of the current file
    outputs,    \* the lines written to each file's output
    log         \* each translated command: its file, line, parts and the lines written for it

translator_vars == <<proj, comp_counters, function_count, call_count>>
machine_vars == <<phase, cmd, lines, ram, regA, regD, pc, pre, written, visits>>
main_vars == <<main_pc, input_kind, vm_files, file_no, read_pos, current_command,
               next_command, has_more_commands, presented, outputs, log>>
vars == <<translator_vars, machine_vars, main_vars>>

----------------------------------------------------------------------------
(* Bounds of the model *)

\* width of a Hack word in bits (16 on the real machine)
WordBits == 7
\* first cell of the stack area (256 on the real machine)
StackBase == 24
\* most lines of an input file given by its path
MaxLines == 4
\* most lines of an input file of an input directory
MaxDirLines == 1
\* most lines of an input file of blank lines, comments and push/pop commands
MaxTextLines == 2

Pow2(n) == 2 ^ n
WordMod == Pow2(WordBits)
Word == 0 .. (WordMod - 1)
\* addresses are one bit shorter than words (15 bits on the real machine)
AddrMod == Pow2(WordBits - 1)
Addr == 0 .. (AddrMod - 1)
MaxInt == AddrMod - 1
MinInt == AddrMod
MinusOne == WordMod - 1

ToWord(i) == i % WordMod
Signed(v) == IF v >= AddrMod THEN v - WordMod ELSE v

----------------------------------------------------------------------------
(* Lines of assembly *)

ALine(text) == <<"@", text>>
LabelLine(text) == <<"(", text>>
CLine(text) == <<"C", text>>

IsALine(l) == l[1] = "@"
IsLabelLine(l) == l[1] = "("
IsCLine(l) == l[1] = "C"

----------------------------------------------------------------------------
(* The Hack CPU: C-instruction texts and what they compute *)

Dests == {"", "M", "D", "MD", "A", "AM", "AD", "AMD"}
Jumps == {"", "JGT", "JEQ", "JGE", "JLT", "JNE", "JLE", "JMP"}
Comps == {"0", "1", "-1", "D", "A", "M", "!D", "!A", "!M", "-D", "-A", "-M",
          "D+1", "A+1", "M+1", "D-1", "A-1", "M-1",
          "D+A", "A+D", "D+M", "M+D", "D-A", "D-M", "A-D", "M-D",
          "D&A", "A&D", "D&M", "M&D", "D|A", "A|D", "D|M", "M|D"}

CText(f) == (IF f[1] = "" THEN "" ELSE f[1] \o "=") \o f[2]
                \o (IF f[3] = "" THEN "" ELSE ";" \o f[3])
CFields == Dests \X Comps \X Jumps
CTable == {<<CText(f), f>> : f \in CFields}
CTexts == {e[1] : e \in CTable}
\* the fields <<dest, comp, jump>> of a well-formed C-instruction text
DecodeC == [t \in CTexts |-> (CHOOSE e \in CTable : e[1] = t)[2]]

RECURSIVE BitAnd(_, _, _)
BitAnd(x, y, n) ==
    IF n = 0 THEN 0
    ELSE (IF x % 2 = 1 /\ y % 2 = 1 THEN 1 ELSE 0) + 2 * BitAnd(x \div 2, y \div 2, n - 1)

RECURSIVE BitOr(_, _, _)
BitOr(x, y, n) ==
    IF n = 0 THEN 0
    ELSE (IF x % 2 = 1 \/ y % 2 = 1 THEN 1 ELSE 0) + 2 * BitOr(x \div 2, y \div 2, n - 1)

BitNot(x) == WordMod - 1 - x

\* the ALU output of comp with registers a, d and memory operand m
Alu(comp, a, d, m) ==
    CASE comp = "0" -> 0
      [] comp = "1" -> 1
      [] comp = "-1" -> MinusOne
      [] comp = "D" -> d
      [] comp = "A" -> a
      [] comp = "M" -> m
      [] comp = "!D" -> BitNot(d)
      [] comp = "!A" -> BitNot(a)
      [] comp = "!M" -> BitNot(m)
      [] comp = "-D" -> ToWord(WordMod - d)
      [] comp = "-A" -> ToWord(WordMod - a)
      [] comp = "-M" -> ToWord(WordMod - m)
      [] comp = "D+1" -> ToWord(d + 1)
      [] comp = "A+1" -> ToWord(a + 1)
      [] comp = "M+1" -> ToWord(m + 1)
      [] comp = "D-1" -> ToWord(d + WordMod - 1)
      [] comp = "A-1" -> ToWord(a + WordMod - 1)
      [] comp = "M-1" -> ToWord(m + WordMod - 1)
      [] comp \in {"D+A", "A+D"} -> ToWord(d + a)
      [] comp \in {"D+M", "M+D"} -> ToWord(d + m)
      [] comp = "D-A" -> ToWord(d + WordMod - a)
      [] comp = "D-M" -> ToWord(d + WordMod - m)
      [] comp = "A-D" -> ToWord(a + WordMod - d)
      [] comp = "M-D" -> ToWord(m + WordMod - d)
      [] comp \in {"D&A", "A&D"} -> BitAnd(d, a, WordBits)
      [] comp \in {"D&M", "M&D"} -> BitAnd(d, m, WordBits)
      [] comp \in {"D|A", "A|D"} -> BitOr(d, a, WordBits)
      [] comp \in {"D|M", "M|D"} -> BitOr(d, m, WordBits)

\* whether the jump directive is taken on ALU output out
Taken(jump, out) ==
    CASE jump = "" -> FALSE
      [] jump = "JGT" -> Signed(out) > 0
      [] jump = "JEQ" -> out = 0
      [] jump = "JGE" -> Signed(out) >= 0
      [] jump = "JLT" -> Signed(out) < 0
      [] jump = "JNE" -> out # 0
      [] jump = "JLE" -> Signed(out) <= 0
      [] jump = "JMP" -> TRUE

\* the assembler's predefined symbols
Predefined ==
    [s \in {"SP", "LCL", "ARG", "THIS", "THAT", "R0", "R1", "R2", "R3", "R4", "R5", "R6",
            "R7", "R8", "R9", "R10", "R11", "R12", "R13", "R14", "R15"} |->
        CASE s = "SP" -> 0 [] s = "LCL" -> 1 [] s = "ARG" -> 2 [] s = "THIS" -> 3
          [] s = "THAT" -> 4
          [] OTHER -> CHOOSE n \in 0 .. 15 : s = "R" \o ToString(n)]

IsNumeral(t) == \E n \in Addr : ToString(n) = t
NumeralValue(t) == CHOOSE n \in Addr : ToString(n) = t

----------------------------------------------------------------------------
(* VMCommand: a command is modelled by its parts, the words of its text *)

\* what a Python accessor returns when it has nothing to return
None == "<None>"

RECURSIVE JoinParts(_)
JoinParts(parts) ==
    IF Len(parts) = 0 THEN ""
    ELSE IF Len(parts) = 1 THEN parts[1]
    ELSE parts[1] \o " " \o JoinParts(Tail(parts))

text(c) == JoinParts(c)
operation(c) == c[1]
segment(c) == IF Len(c) # 3 THEN None ELSE c[2]
index(c) == IF Len(c) # 3 THEN None ELSE c[3]

is_function_declaration_command(c) == operation(c) = "function"
is_call_command(c) == operation(c) = "call"
is_return_command(c) == operation(c) = "return"
is_function_command(c) ==
    is_function_declaration_command(c) \/ is_call_command(c) \/ is_return_command(c)
is_goto_command(c) == operation(c) = "goto"
is_ifgoto_command(c) == operation(c) = "if-goto"
is_label_command(c) == operation(c) = "label"
is_branching_command(c) == is_goto_command(c) \/ is_label_command(c) \/ is_ifgoto_command(c)
is_pushpop_command(c) == operation(c) = "push" \/ operation(c) = "pop"

label(c) == IF ~is_branching_command(c) THEN None ELSE c[2]
function_name(c) ==
    IF ~is_function_declaration_command(c) /\ ~is_call_command(c) THEN None ELSE c[2]
arguments(c) == IF ~is_call_command(c) THEN None ELSE c[3]
locals(c) == IF ~is_function_declaration_command(c) THEN None ELSE c[3]

\* str.upper() on the comparison command texts
Upper(t) == CASE t = "eq" -> "EQ" [] t = "lt" -> "LT" [] t = "gt" -> "GT"

----------------------------------------------------------------------------
(* Project 08: VMArithmeticTranslator *)

\* sub with its operands exchanged
Arith_OPERATION_INSTRUCTIONS_exchanged ==
    [op \in {"add", "sub", "neg", "or", "not", "and"} |->
        CASE op = "add" -> "M=M+D"
          [] op = "sub" -> "M=D-M"
          [] op = "neg" -> "M=-M"
          [] op = "or" -> "M=M|D"
          [] op = "not" -> "M=!M"
          [] op = "and" -> "M=M&D"]

Arith_OPERATION_INSTRUCTIONS ==
    [op \in {"add", "sub", "neg", "or", "not", "and"} |->
        CASE op = "add" -> "M=M+D"
          [] op = "sub" -> "M=M-D"
          [] op = "neg" -> "M=-M"
          [] op = "or" -> "M=M|D"
          [] op = "not" -> "M=!M"
          [] op = "and" -> "M=M&D"]

COMP_COMMANDS ==
    [op \in {"eq", "lt", "gt"} |->
        CASE op = "eq" -> "JNE" [] op = "lt" -> "JGE" [] op = "gt" -> "JLE"]

Arith_pop_top_number_off_stack_instructions == <<ALine("SP"), CLine("AM=M-1")>>

Arith_increment_stack_pointer_instructions == <<ALine("SP"), CLine("M=M+1")>>

Arith_arithmetic_translation(command_text) ==
    IF command_text \in {"add", "sub", "and", "or"}
    THEN Arith_pop_top_number_off_stack_instructions
         \o <<CLine("D=M")>>
         \o Arith_pop_top_number_off_stack_instructions
         \o <<CLine(Arith_OPERATION_INSTRUCTIONS[command_text])>>
         \o Arith_increment_stack_pointer_instructions
    ELSE Arith_pop_top_number_off_stack_instructions
         \o <<CLine(Arith_OPERATION_INSTRUCTIONS[command_text])>>
         \o Arith_increment_stack_pointer_instructions

\* count is the counter of command_text after its increment
Arith_comp_translation(command_text, count) ==
    LET label_identifier == Upper(command_text) \o ToString(count)
        jump_directive == COMP_COMMANDS[command_text]
    IN  Arith_pop_top_number_off_stack_instructions
        \o <<CLine("D=M")>>
        \o Arith_pop_top_number_off_stack_instructions
        \o <<CLine("D=M-D"),
             ALine("NOT_" \o label_identifier),
             CLine("D;" \o jump_directive),
             ALine("SP"),
             CLine("A=M"),
             CLine("M=-1"),
             ALine("INC_STACK_POINTER_" \o label_identifier),
             CLine("0;JMP"),
             LabelLine("NOT_" \o label_identifier),
             ALine("SP"),
             CLine("A=M"),
             CLine("M=0"),
             LabelLine("INC_STACK_POINTER_" \o label_identifier)>>
        \o Arith_increment_stack_pointer_instructions

\* counters is the translator's comp_counters before the call
Arith_translate(c, counters) ==
    IF text(c) \in DOMAIN COMP_COMMANDS
    THEN Arith_comp_translation(text(c), counters[text(c)] + 1)
    ELSE Arith_arithmetic_translation(text(c))

----------------------------------------------------------------------------
(* Project 08: VMPushPopTranslator *)

VIRTUAL_MEMORY_SEGMENTS ==
    [s \in {"local", "argument", "this", "that"} |->
        CASE s = "local" -> "1" [] s = "argument" -> "2" [] s = "this" -> "3"
          [] s = "that" -> "4"]

POINTER_SEGMENT_BASE_ADDRESS == "3"

HOST_SEGMENTS == [s \in {"temp", "static"} |-> CASE s = "temp" -> "5" [] s = "static" -> "16"]

PushPop_place_value_in_D_on_top_of_stack_instructions ==
    <<ALine("SP"), CLine("A=M"), CLine("M=D")>>

PushPop_increment_stack_pointer_instructions == <<ALine("SP"), CLine("M=M+1")>>

load_value_in_D_instructions(value) == <<ALine(value), CLine("D=A")>>

load_referenced_value_in_D_instructions(address) == <<ALine(address), CLine("D=M")>>

add_index_to_base_address_in_D_instructions(idx) == <<ALine(idx), CLine("D=D+A")>>

\* the address left in D, not the value at it
load_value_at_memory_address_in_D_instructions_address == <<CLine("A=D"), CLine("D=A")>>

load_value_at_memory_address_in_D_instructions == <<CLine("A=D"), CLine("D=M")>>

\* the address register not set from R6
set_target_address_to_value_instructions_direct ==
    <<ALine("R5"), CLine("D=M"), ALine("R6"), CLine("M=D")>>

set_target_address_to_value_instructions ==
    <<ALine("R5"), CLine("D=M"), ALine("R6"), CLine("A=M"), CLine("M=D")>>

store_target_address_in_second_temp_register_instructions == <<ALine("R6"), CLine("M=D")>>

store_top_of_stack_first_temp_register_instructions == <<ALine("R5"), CLine("M=D")>>

store_top_of_stack_in_D_instructions == <<ALine("SP"), CLine("AM=M-1"), CLine("D=M")>>

\* None (no return statement is reached) for a segment of no class
load_base_address_instructions_for(seg) ==
    IF seg \in DOMAIN VIRTUAL_MEMORY_SEGMENTS
    THEN load_referenced_value_in_D_instructions(VIRTUAL_MEMORY_SEGMENTS[seg])
    ELSE IF seg \in DOMAIN HOST_SEGMENTS
    THEN load_value_in_D_instructions(HOST_SEGMENTS[seg])
    ELSE IF seg = "pointer"
    THEN load_value_in_D_instructions(POINTER_SEGMENT_BASE_ADDRESS)
    ELSE None

load_desired_value_into_D_instructions_for(seg, idx) ==
    IF seg = "constant"
    THEN load_value_in_D_instructions(idx)
    ELSE load_base_address_instructions_for(seg)
         \o add_index_to_base_address_in_D_instructions(idx)
         \o load_value_at_memory_address_in_D_instructions

PushPop_translate(c) ==
    IF operation(c) = "push"
    THEN load_desired_value_into_D_instructions_for(segment(c), index(c))
         \o PushPop_place_value_in_D_on_top_of_stack_instructions
         \o PushPop_increment_stack_pointer_instructions
    ELSE store_top_of_stack_in_D_instructions
         \o store_top_of_stack_first_temp_register_instructions
         \o load_base_address_instructions_for(segment(c))
         \o add_index_to_base_address_in_D_instructions(index(c))
         \o store_target_address_in_second_temp_register_instructions
         \o set_target_address_to_value_instructions

----------------------------------------------------------------------------
(* Project 08: VMBranchingTranslator *)

\* if-goto jumping on zero
Branching_translate_on_zero(c) ==
    IF is_label_command(c)
    THEN <<LabelLine(label(c))>>
    ELSE IF is_goto_command(c)
    THEN <<ALine(label(c)), CLine("0;JMP")>>
    ELSE IF is_ifgoto_command(c)
    THEN <<ALine("SP"), CLine("AM=M-1"), CLine("D=M"), ALine(label(c)), CLine("D;JEQ")>>
    ELSE None

\* None (no return statement is reached) for any other command
Branching_translate(c) ==
    IF is_label_command(c)
    THEN <<LabelLine(label(c))>>
    ELSE IF is_goto_command(c)
    THEN <<ALine(label(c)), CLine("0;JMP")>>
    ELSE IF is_ifgoto_command(c)
    THEN <<ALine("SP"), CLine("AM=M-1"), CLine("D=M"), ALine(label(c)), CLine("D;JNE")>>
    ELSE None

----------------------------------------------------------------------------
(* Project 08: VMFunctionTranslator *)

\* the lines of a function declaration; count is function_count after its increment
Function_declaration_translation(c, count) ==
    <<LabelLine(function_name(c)),
      ALine(locals(c)),
      CLine("D=A"),
      LabelLine("LOOP.ADD_LOCALS." \o ToString(count)),
      ALine("SP"),
      CLine("A=M"),
      CLine("M=0"),
      ALine("SP"),
      CLine("M=M+1"),
      CLine("D=D-1"),
      ALine("LOOP.ADD_LOCALS." \o ToString(count)),
      CLine("D;JNE")>>

\* the line of a call: the bare word
Function_call_translation == <<CLine("call")>>

\* restore one saved register from FRAME - offset
Function_restore(offset, register) ==
    <<ALine(offset), CLine("D=A"), ALine("R5"), CLine("A=M-D"), CLine("D=M"),
      ALine(register), CLine("M=D")>>

\* the return address read after the return value is stored
Function_return_translation_late ==
    <<ALine("LCL"), CLine("D=M"), ALine("R5"), CLine("M=D")>>
    \o <<ALine("SP"), CLine("AM=M-1"), CLine("D=M"), ALine("ARG"), CLine("A=M"), CLine("M=D")>>
    \o <<ALine("5"), CLine("D=A"), ALine("R5"), CLine("A=M-D"), CLine("D=M"),
         ALine("R6"), CLine("M=D")>>
    \o <<ALine("ARG"), CLine("D=M+1"), ALine("SP"), CLine("M=D")>>
    \o Function_restore("1", "THAT")
    \o Function_restore("2", "THIS")
    \o Function_restore("3", "ARG")
    \o Function_restore("4", "LCL")
    \o <<ALine("R6"), CLine("A=M"), CLine("0;JMP")>>

Function_return_translation ==
    \* FRAME = LCL
    <<ALine("LCL"), CLine("D=M"), ALine("R5"), CLine("M=D")>>
    \* RET = *(FRAME-5)
    \o <<ALine("5"), CLine("D=A"), ALine("R5"), CLine("A=M-D"), CLine("D=M"),
         ALine("R6"), CLine("M=D")>>
    \* *ARG = pop()
    \o <<ALine("SP"), CLine("AM=M-1"), CLine("D=M"), ALine("ARG"), CLine("A=M"), CLine("M=D")>>
    \* SP = ARG+1
    \o <<ALine("ARG"), CLine("D=M+1"), ALine("SP"), CLine("M=D")>>
    \* THAT = *(FRAME-1), THIS = *(FRAME-2), ARG = *(FRAME-3), LCL = *(FRAME-4)
    \o Function_restore("1", "THAT")
    \o Function_restore("2", "THIS")
    \o Function_restore("3", "ARG")
    \o Function_restore("4", "LCL")
    \* goto RET
    \o <<ALine("R6"), CLine("A=M"), CLine("0;JMP")>>

\* fcount is the translator's function_count before the call
Function_translate(c, fcount) ==
    IF is_function_declaration_command(c)
    THEN Function_declaration_translation(c, fcount + 1)
    ELSE IF is_call_command(c)
    THEN Function_call_translation
    ELSE IF is_return_command(c)
    THEN Function_return_translation
    ELSE None

----------------------------------------------------------------------------
(* Project 08: the dispatch of the main loop *)

Translate08(c, counters, fcount) ==
    IF is_pushpop_command(c) THEN PushPop_translate(c)
    ELSE IF is_branching_command(c) THEN Branching_translate(c)
    ELSE IF is_function_command(c) THEN Function_translate(c, fcount)
    ELSE Arith_translate(c, counters)

\* The translation of c raises: a segment of no class (the unpacking of None), a
\* missing part (parts[1], parts[2]), or a text that is no key of
\* OPERATION_INSTRUCTIONS.
Raises08(c) ==
    IF is_pushpop_command(c)
    THEN /\ ~(operation(c) = "push" /\ segment(c) = "constant")
         /\ segment(c) \notin (DOMAIN VIRTUAL_MEMORY_SEGMENTS \cup DOMAIN HOST_SEGMENTS
                                   \cup {"pointer"})
    ELSE IF is_branching_command(c) THEN Len(c) < 2
    ELSE IF is_function_declaration_command(c) THEN Len(c) < 3
    ELSE IF is_function_command(c) THEN FALSE
    ELSE text(c) \notin (DOMAIN COMP_COMMANDS \cup DOMAIN Arith_OPERATION_INSTRUCTIONS)

----------------------------------------------------------------------------
(* Project 07: VMTranslator *)

\* what a translation is when the Python code raises instead of returning
Raise == "<raise>"

T07_binary(instruction) ==
    <<ALine("SP"), CLine("AM=M-1"), CLine("D=M"), ALine("SP"), CLine("AM=M-1"),
      CLine(instruction), ALine("SP"), CLine("M=M+1")>>

ARITHMETIC_TRANSLATIONS ==
    [op \in {"add", "sub", "neg"} |->
        CASE op = "add" -> T07_binary("M=M+D")
          [] op = "sub" -> T07_binary("M=M-D")
          [] op = "neg" -> <<ALine("SP"), CLine("A=M-1"), CLine("M=-M")>>]

LOGICAL_TRANSLATIONS ==
    [op \in {"or", "not", "and"} |->
        CASE op = "or" -> T07_binary("M=M|D")
          [] op = "not" -> <<ALine("SP"), CLine("AM=M-1"), CLine("M=!M"),
                             ALine("SP"), CLine("M=M+1")>>
          [] op = "and" -> T07_binary("M=M&D")]

VIRTUAL_MEMORY_SEGMENT_REGISTER_NAMES ==
    [s \in {"local", "argument", "this", "that"} |->
        CASE s = "local" -> "LCL" [] s = "argument" -> "ARG" [] s = "this" -> "THIS"
          [] s = "that" -> "THAT"]

POINTER_SEGMENT_REGISTERS == [i \in {"0", "1"} |-> IF i = "0" THEN "THIS" ELSE "THAT"]

\* lt with the directive of "less or equal"
T07_COMP_COMMANDS_strict ==
    [op \in {"eq", "lt", "gt"} |->
        CASE op = "eq" -> "JNE" [] op = "lt" -> "JGT" [] op = "gt" -> "JLE"]

T07_COMP_COMMANDS ==
    [op \in {"eq", "lt", "gt"} |->
        CASE op = "eq" -> "JNE" [] op = "lt" -> "JGE" [] op = "gt" -> "JLE"]

T07_HOST_SEGMENTS ==
    [s \in {"temp", "static"} |-> CASE s = "temp" -> "5" [] s = "static" -> "16"]

T07_place_value_in_D_on_top_stack_instructions == <<ALine("SP"), CLine("A=M"), CLine("M=D")>>

T07_increment_stack_pointer_instructions == <<ALine("SP"), CLine("M=M+1")>>

\* the lines shared by the three pop branches, which differ in the two lines
\* that load the base (base_line, load) and in the index
T07_pop_lines(base_line, load, idx) ==
    <<ALine("SP"), CLine("AM=M-1"), CLine("D=M"),
      ALine("R5"), CLine("M=D"),
      ALine(base_line), CLine(load),
      ALine(idx), CLine("D=A+D"),
      ALine("R6"), CLine("M=D"),
      ALine("R5"), CLine("D=M"),
      ALine("R6"), CLine("A=M"), CLine("M=D")>>

T07_push_translation(c) ==
    IF segment(c) = "constant"
    THEN <<ALine(index(c)), CLine("D=A")>>
         \o T07_place_value_in_D_on_top_stack_instructions
         \o T07_increment_stack_pointer_instructions
    ELSE IF segment(c) \in DOMAIN VIRTUAL_MEMORY_SEGMENT_REGISTER_NAMES
    THEN <<ALine(VIRTUAL_MEMORY_SEGMENT_REGISTER_NAMES[segment(c)]), CLine("D=M"),
           ALine(index(c)), CLine("A=A+D"), CLine("D=M")>>
         \o T07_place_value_in_D_on_top_stack_instructions
         \o T07_increment_stack_pointer_instructions
    ELSE IF segment(c) = "pointer"
    THEN IF index(c) \notin DOMAIN POINTER_SEGMENT_REGISTERS
         THEN Raise
         ELSE <<ALine(POINTER_SEGMENT_REGISTERS[index(c)]), CLine("D=M")>>
              \o T07_place_value_in_D_on_top_stack_instructions
              \o T07_increment_stack_pointer_instructions
    ELSE IF segment(c) \in DOMAIN T07_HOST_SEGMENTS
    THEN <<ALine(T07_HOST_SEGMENTS[segment(c)]), CLine("D=A"),
           ALine(index(c)), CLine("A=A+D"), CLine("D=M")>>
         \o T07_place_value_in_D_on_top_stack_instructions
         \o T07_increment_stack_pointer_instructions
    ELSE None

T07_pop_translation(c) ==
    IF segment(c) \in DOMAIN VIRTUAL_MEMORY_SEGMENT_REGISTER_NAMES
    THEN T07_pop_lines(VIRTUAL_MEMORY_SEGMENT_REGISTER_NAMES[segment(c)], "D=M", index(c))
    ELSE IF segment(c) \in DOMAIN T07_HOST_SEGMENTS
    THEN T07_pop_lines(T07_HOST_SEGMENTS[segment(c)], "D=A", index(c))
    ELSE IF segment(c) = "pointer"
    THEN IF index(c) \notin DOMAIN POINTER_SEGMENT_REGISTERS
         THEN Raise
         ELSE LET segment_to_set == IF index(c) = "0" THEN "this" ELSE "that"
                  idx == IF index(c) = "0" THEN "3" ELSE "4"
              IN  T07_pop_lines(VIRTUAL_MEMORY_SEGMENT_REGISTER_NAMES[segment_to_set],
                                "D=M", idx)
    ELSE None

\* count is the counter of command_text after its increment
T07_comp_translation(command_text, count) ==
    LET label_identifier == Upper(command_text) \o ToString(count)
        jump_directive == T07_COMP_COMMANDS[command_text]
    IN  <<ALine("SP"), CLine("AM=M-1"), CLine("D=M"),
          ALine("SP"), CLine("AM=M-1"), CLine("D=M-D"),
          ALine("NOT_" \o label_identifier),
          CLine("D;" \o jump_directive),
          ALine("SP"), CLine("A=M"), CLine("M=-1"),
          ALine("INC_STACK_POINTER_" \o label_identifier),
          CLine("0;JMP"),
          LabelLine("NOT_" \o label_identifier),
          ALine("SP"), CLine("A=M"), CLine("M=0"),
          LabelLine("INC_STACK_POINTER_" \o label_identifier),
          ALine("SP"), CLine("M=M+1")>>

\* counters is the translator's counters before the call
Translate07(c, counters) ==
    IF text(c) \in DOMAIN ARITHMETIC_TRANSLATIONS THEN ARITHMETIC_TRANSLATIONS[text(c)]
    ELSE IF text(c) \in DOMAIN LOGICAL_TRANSLATIONS THEN LOGICAL_TRANSLATIONS[text(c)]
    ELSE IF text(c) \in DOMAIN T07_COMP_COMMANDS
    THEN T07_comp_translation(text(c), counters[text(c)] + 1)
    ELSE IF operation(c) = "push" THEN T07_push_translation(c)
    ELSE IF operation(c) = "pop" THEN T07_pop_translation(c)
    ELSE None

\* The translation of c raises (a missing part, an index that is no key of
\* POINTER_SEGMENT_REGISTERS), or returns None, over which the main loop cannot
\* iterate.
Raises07(c) ==
    /\ text(c) \notin (DOMAIN ARITHMETIC_TRANSLATIONS \cup DOMAIN LOGICAL_TRANSLATIONS
                          \cup DOMAIN T07_COMP_COMMANDS)
    /\ \/ operation(c) \notin {"push", "pop"}
       \/ Len(c) # 3
       \/ segment(c) \notin ({"pointer"} \cup DOMAIN VIRTUAL_MEMORY_SEGMENT_REGISTER_NAMES
                                \cup DOMAIN T07_HOST_SEGMENTS
                                \cup (IF operation(c) = "push" THEN {"constant"} ELSE {}))
       \/ (segment(c) = "pointer" /\ index(c) \notin DOMAIN POINTER_SEGMENT_REGISTERS)

----------------------------------------------------------------------------
(* The assembler and the rest of the program *)

LabelNames == <<"LOOP", "END">>
FunctionNames == <<"Main.f", "Main.g">>

Range(q) == {q[i] : i \in DOMAIN q}

Instructions(ls) == SelectSeq(ls, LAMBDA l : ~IsLabelLine(l))

LabelsOf(ls) == {ls[i][2] : i \in {j \in DOMAIN ls : IsLabelLine(ls[j])}}

\* the address of the instruction that follows the (first) label line of name
LabelAddress(ls, name) ==
    LET at == CHOOSE i \in DOMAIN ls :
                  /\ IsLabelLine(ls[i]) /\ ls[i][2] = name
                  /\ \A j \in 1 .. (i - 1) : ~(IsLabelLine(ls[j]) /\ ls[j][2] = name)
    IN  Cardinality({j \in 1 .. (at - 1) : ~IsLabelLine(ls[j])})

\* The labels the rest of the program defines, and where: the symbol that the
\* translation of `label L` defines for each L of LabelNames, and the symbol that
\* the translation of `function f 0` defines first for each f of FunctionNames.
\* They lie at the top of the instruction memory, outside the command's own lines.
ProgramLabels ==
    [i \in DOMAIN LabelNames |-> Branching_translate(<<"label", LabelNames[i]>>)[1][2]]
    \o [i \in DOMAIN FunctionNames |->
           Function_declaration_translation(<<"function", FunctionNames[i], "0">>, 1)[1][2]]

ProgramLabelAddress(name) ==
    AddrMod - (CHOOSE i \in DOMAIN ProgramLabels : ProgramLabels[i] = name)

\* the value the assembler gives the text of an A-line of the lines ls
Resolve(t, ls) ==
    IF IsNumeral(t) THEN NumeralValue(t)
    ELSE IF t \in DOMAIN Predefined THEN Predefined[t]
    ELSE IF t \in LabelsOf(ls) THEN LabelAddress(ls, t)
    ELSE IF t \in Range(ProgramLabels) THEN ProgramLabelAddress(t)
    ELSE 16     \* a new variable

\* the assembler accepts the lines
Assembles(ls) == \A i \in DOMAIN ls : IsCLine(ls[i]) => ls[i][2] \in CTexts

----------------------------------------------------------------------------
(* The machine state a command starts in *)

Vals == {0, 1, 2, MaxInt, MinInt, MinusOne}

ThisBase == StackBase + 16
ThatBase == StackBase + 24
RetAddr == AddrMod - 8
SavedLCL == StackBase - 4
SavedARG == StackBase - 3
SavedTHIS == ThisBase + 1
SavedTHAT == ThatBase + 1

\* a cell nothing is known about: never 0
Fill(a) == (a % 7) + 1

\* n: the number of arguments of the running function; this: the value of THIS;
\* x, y: the two topmost stack values.  The running function has two locals.
\* A function of no argument is run with a small and with a large return value.
Configs ==
    {cf \in [n : {0, 1}, this : {ThisBase, 4}, x : Vals, y : Vals] :
        (cf.n = 1 /\ cf.this = ThisBase) \/ (cf.x = 2 /\ cf.y \in {1, MaxInt})}

FrameOf(cf) == StackBase + cf.n + 5

InitRam(cf) ==
    LET frame == FrameOf(cf)
    IN  [a \in Addr |->
            CASE a = 0 -> frame + 4
              [] a = 1 -> frame
              [] a = 2 -> StackBase
              [] a = 3 -> cf.this
              [] a = 4 -> ThatBase
              [] a = frame - 5 -> RetAddr
              [] a = frame - 4 -> SavedLCL
              [] a = frame - 3 -> SavedARG
              [] a = frame - 2 -> SavedTHIS
              [] a = frame - 1 -> SavedTHAT
              [] a = frame + 2 -> cf.x
              [] a = frame + 3 -> cf.y
              [] OTHER -> Fill(a)]

----------------------------------------------------------------------------
(* The commands *)

Num(S) == {ToString(i) : i \in S}

ArithCommands == {<<op>> : op \in {"add", "sub", "and", "or", "neg", "not", "eq", "lt", "gt"}}

PushPopArgs ==
    ({"local", "argument", "this", "that"} \X Num({0, 1, 2}))
    \cup ({"temp"} \X Num({0, 1, 7}))
    \cup ({"pointer"} \X Num({0, 1}))

PushCommands ==
    {<<"push", a[1], a[2]>> : a \in PushPopArgs \cup ({"constant"} \X Num({0, 3, MaxInt}))}

PopCommands == {<<"pop", a[1], a[2]>> : a \in PushPopArgs}

BranchCommands == {"label", "goto", "if-goto"} \X Range(LabelNames)

FunctionCommands ==
    ({"function"} \X {FunctionNames[1]} \X Num({0, 1, 2}))
    \cup ({"call"} \X {FunctionNames[1]} \X Num({0, 1}))
    \cup {<<"return">>}

Commands07 == ArithCommands \cup PushCommands \cup PopCommands
Commands08 == Commands07 \cup BranchCommands \cup FunctionCommands
Commands(p) == IF p = "07" THEN Commands07 ELSE Commands08

----------------------------------------------------------------------------
(* Actions *)

TranslatorInit ==
    /\ comp_counters = [k \in {"eq", "lt", "gt"} |-> 0]
    /\ function_count = 0
    /\ call_count = 0

MainOff ==
    /\ main_pc = "off"
    /\ input_kind = "file"
    /\ vm_files = <<>>
    /\ file_no = 0
    /\ read_pos = 0
    /\ current_command = <<>>
    /\ next_command = <<>>
    /\ has_more_commands = FALSE
    /\ presented = <<>>
    /\ outputs = <<>>
    /\ log = <<>>

\* one command is about to be translated and run
Init ==
    /\ proj \in {"07", "08"}
    /\ TranslatorInit
    /\ phase = "idle"
    /\ cmd = <<>>
    /\ lines = <<>>
    /\ \E cf \in Configs : ram = InitRam(cf)
    /\ regA \in {0, 9}
    /\ regD = regA
    /\ pc = 0
    /\ pre = ram
    /\ written = {}
    /\ visits = <<>>
    /\ MainOff

\* the translator's counters after the translation of c
CountersAfter(c) ==
    /\ comp_counters' =
         IF Len(c) = 1 /\ c[1] \in DOMAIN comp_counters
         THEN [comp_counters EXCEPT ![c[1]] = @ + 1]
         ELSE comp_counters
    /\ function_count' =
         IF proj = "08" /\ is_function_declaration_command(c)
         THEN function_count + 1 ELSE function_count
    /\ call_count' = IF proj = "08" /\ is_call_command(c) THEN call_count + 1 ELSE call_count

\* The translator translates command c and the machine is handed its lines.
Translate(c) ==
    /\ phase = "idle"
    /\ ~(IF proj = "07" THEN Raises07(c) ELSE Raises08(c))
    /\ LET ls == IF proj = "07" THEN Translate07(c, comp_counters)
                 ELSE Translate08(c, comp_counters, function_count)
       IN  /\ lines' = ls
           /\ phase' = IF Assembles(ls) THEN "run" ELSE "error"
           /\ visits' = [i \in 1 .. Len(Instructions(ls)) |-> 0]
    /\ cmd' = c
    /\ CountersAfter(c)
    /\ pc' = 0
    /\ pre' = ram
    /\ written' = {}
    /\ UNCHANGED <<proj, ram, regA, regD, main_vars>>

\* The CPU executes the instruction at pc.
Step ==
    /\ phase = "run"
    /\ pc < Len(Instructions(lines))
    /\ LET ins == Instructions(lines)[pc + 1]
       IN  IF IsALine(ins)
           THEN /\ regA' = Resolve(ins[2], lines)
                /\ pc' = pc + 1
                /\ UNCHANGED <<regD, ram, written>>
           ELSE LET f == DecodeC[ins[2]]
                    at == regA % AddrMod
                    out == Alu(f[2], regA, regD, ram[at])
                IN  /\ regA' = IF f[1] \in {"A", "AM", "AD", "AMD"} THEN out ELSE regA
                    /\ regD' = IF f[1] \in {"D", "MD", "AD", "AMD"} THEN out ELSE regD
                    /\ ram' = IF f[1] \in {"M", "MD", "AM", "AMD"}
                              THEN [ram EXCEPT ![at] = out] ELSE ram
                    /\ written' = IF f[1] \in {"M", "MD", "AM", "AMD"}
                                  THEN written \cup {at} ELSE written
                    /\ pc' = IF Taken(f[3], out) THEN regA % AddrMod ELSE pc + 1
    /\ visits' = [visits EXCEPT ![pc + 1] = @ + 1]
    /\ UNCHANGED <<translator_vars, phase, cmd, lines, pre, main_vars>>

\* Control has left the lines of the command.
Leave ==
    /\ phase = "run"
    /\ pc >= Len(Instructions(lines))
    /\ phase' = "done"
    /\ UNCHANGED <<translator_vars, cmd, lines, ram, regA, regD, pc, pre, written, visits,
                   main_vars>>

Next ==
    \/ \E c \in Commands(proj) : Translate(c)
    \/ Step
    \/ Leave

Spec == Init /\ [][Next]_vars

----------------------------------------------------------------------------
(* The input text, VMParser and the main program *)

\* A line of text as readline returns it: leading blanks, the words of the
\* command (separated by single blanks), whether the comment `// c` follows, and
\* whether the line ends with a newline.
RawLine(lead, words, comment, newline) ==
    [lead |-> lead, words |-> words, comment |-> comment, newline |-> newline]

\* what readline returns at the end of the file: ''
EndOfFile == RawLine("", <<>>, FALSE, FALSE)

\* VMCommand.__init__: the text before the comment, stripped, split at blanks
VMCommand(raw_text) ==
    [raw_text |-> raw_text,
     parts |-> IF raw_text.words = <<>> THEN <<"">> ELSE raw_text.words]

\* project 07, VMCommand.__init__: the whole text, stripped, split at blanks; the
\* words of a comment are parts as well
T07_VMCommand(raw_text) ==
    LET words == raw_text.words \o (IF raw_text.comment THEN <<"//", "c">> ELSE <<>>)
    IN  [raw_text |-> raw_text,
         parts |-> IF words = <<>> THEN <<"">> ELSE words]

\* parser.current_command before the first advance
NoCommand == [none |-> TRUE]

is_comment(c) == c.raw_text.lead = "" /\ c.raw_text.words = <<>> /\ c.raw_text.comment
is_whitespace(c) ==
    /\ c.raw_text.lead = "" /\ c.raw_text.words = <<>>
    /\ ~c.raw_text.comment /\ c.raw_text.newline
is_empty(c) == c.raw_text = EndOfFile

has_valid_current_command(c) == ~is_whitespace(c) /\ ~is_comment(c)

\* the line readline returns after n lines of file f were read
readline(f, n) == IF n < Len(f.lines) THEN f.lines[n + 1] ELSE EndOfFile

\* the commands of the input files of this model
SourceCommands ==
    {<<"function", FunctionNames[1], "0">>, <<"function", FunctionNames[2], "0">>,
     <<"label", LabelNames[1]>>, <<"goto", LabelNames[1]>>, <<"if-goto", LabelNames[1]>>,
     <<"eq">>, <<"push", "static", "1">>, <<"pop", "static", "1">>}
SourceLines == {RawLine("", w, FALSE, TRUE) : w \in SourceCommands}
FileNames == {"Alpha", "Beta"}

SeqsUpTo(S, n) == UNION {[1 .. k -> S] : k \in 0 .. n}

\* the lists glob may return for a directory: its files in any order
DirectoryListings ==
    {<<>>}
    \cup {<<[name |-> a, lines |-> la]>> : a \in FileNames, la \in SeqsUpTo(SourceLines, MaxDirLines)}
    \cup {<<[name |-> fa[1], lines |-> la], [name |-> fa[2], lines |-> lb]>> :
            fa \in {x \in FileNames \X FileNames : x[1] # x[2]},
            la \in SeqsUpTo(SourceLines, MaxDirLines),
            lb \in SeqsUpTo(SourceLines, MaxDirLines)}

\* the lines of the input files of blank lines, comments and push/pop commands:
\* an empty line, a line of blanks, a comment, an indented comment, a command, a
\* command with a comment, a command that ends the file without a newline, the
\* static segment, and push/pop commands that name no cell of a segment
TextLines ==
    {RawLine(lead, <<>>, comment, TRUE) : lead \in {"", "  "}, comment \in BOOLEAN}
    \cup {RawLine("", <<"eq">>, comment, TRUE) : comment \in BOOLEAN}
    \cup {RawLine("", <<"eq">>, FALSE, FALSE)}
    \cup {RawLine("", w, FALSE, TRUE) :
            w \in {<<"push", "static", "1">>, <<"pop", "static", "1">>,
                   <<"push", "temp", "8">>, <<"push", "pointer", "2">>,
                   <<"pop", "constant", "0">>, <<"push", "heap", "0">>}}

\* only the last line of a file can lack its newline
TextFiles ==
    {ls \in SeqsUpTo(TextLines, MaxTextLines) : \A i \in 1 .. (Len(ls) - 1) : ls[i].newline}

MachineOff ==
    /\ phase = "off"
    /\ cmd = <<>>
    /\ lines = <<>>
    /\ ram = <<>>
    /\ regA = 0
    /\ regD = 0
    /\ pc = 0
    /\ pre = <<>>
    /\ written = {}
    /\ visits = <<>>

\* The main program is about to run: that of project 08 on a file or a directory,
\* or either main program on a file of TextFiles.  The main program of project 07
\* takes its one file as the only turn of the for loop.
InitMain ==
    /\ TranslatorInit
    /\ MachineOff
    /\ main_pc = "for"
    /\ \/ /\ proj = "08"
          /\ input_kind = "file"
          /\ \E ls \in SeqsUpTo(SourceLines, MaxLines) :
                vm_files = <<[name |-> "Alpha", lines |-> ls]>>
       \/ /\ proj = "08"
          /\ input_kind = "dir"
          /\ vm_files \in DirectoryListings
       \/ /\ proj \in {"07", "08"}
          /\ input_kind = "file"
          /\ \E ls \in TextFiles : vm_files = <<[name |-> "Alpha", lines |-> ls]>>
    /\ file_no = 0
    /\ read_pos = 0
    /\ current_command = NoCommand
    /\ next_command = NoCommand
    /\ has_more_commands = FALSE
    /\ presented = <<>>
    /\ outputs = [i \in DOMAIN vm_files |-> <<>>]
    /\ log = <<>>

\* for vm_file in vm_files: a parser, a writer (its output file emptied) and the
\* translators are made
OpenFile ==
    /\ main_pc = "for"
    /\ file_no < Len(vm_files)
    /\ main_pc' = "while"
    /\ read_pos' = 0
    /\ current_command' = NoCommand
    /\ next_command' = NoCommand
    /\ has_more_commands' = TRUE
    /\ presented' = <<>>
    /\ outputs' = [outputs EXCEPT ![file_no + 1] = <<>>]
    /\ comp_counters' = [k \in {"eq", "lt", "gt"} |-> 0]
    /\ function_count' = 0
    /\ call_count' = 0
    /\ UNCHANGED <<proj, machine_vars, input_kind, vm_files, file_no, log>>

\* the VMCommand the running main program makes of a line
Command(raw_text) == IF proj = "07" THEN T07_VMCommand(raw_text) ELSE VMCommand(raw_text)

\* one turn of the while loop: parser.advance(), then the translation of the
\* current command, if it is valid, and the writing of its lines
LoopBody ==
    /\ main_pc = "while"
    /\ has_more_commands
    /\ LET f == vm_files[file_no + 1]
           first == current_command = NoCommand
           cur == IF first THEN Command(readline(f, read_pos)) ELSE next_command
           pos == IF first /\ read_pos < Len(f.lines) THEN read_pos + 1 ELSE read_pos
           nxt == Command(readline(f, pos))
       IN  /\ current_command' = cur
           /\ next_command' = nxt
           /\ read_pos' = IF pos < Len(f.lines) THEN pos + 1 ELSE pos
           /\ has_more_commands' = IF is_empty(nxt) THEN FALSE ELSE has_more_commands
           /\ presented' = Append(presented, cur.raw_text)
           /\ IF ~has_valid_current_command(cur)
              THEN UNCHANGED <<main_pc, outputs, log, comp_counters, function_count,
                               call_count>>
              ELSE IF (IF proj = "07" THEN Raises07(cur.parts) ELSE Raises08(cur.parts))
              THEN /\ main_pc' = "raised"
                   /\ UNCHANGED <<outputs, log, comp_counters, function_count, call_count>>
              ELSE LET ls == IF proj = "07" THEN Translate07(cur.parts, comp_counters)
                             ELSE Translate08(cur.parts, comp_counters, function_count)
                   IN  /\ outputs' = [outputs EXCEPT ![file_no + 1] = @ \o ls]
                       /\ log' = Append(log, [file |-> file_no + 1, parts |-> cur.parts,
                                              lines |-> ls, raw_text |-> cur.raw_text])
                       /\ CountersAfter(cur.parts)
                       /\ UNCHANGED main_pc
    /\ UNCHANGED <<proj, machine_vars, input_kind, vm_files, file_no>>

\* the while loop ends: the for loop goes on to the next file
EndWhile ==
    /\ main_pc = "while"
    /\ ~has_more_commands
    /\ main_pc' = "for"
    /\ file_no' = file_no + 1
    /\ UNCHANGED <<translator_vars, machine_vars, input_kind, vm_files, read_pos,
                   current_command, next_command, has_more_commands, presented, outputs, log>>

\* after the for loop: writer.close_file(); with no file there is no writer
CloseFile ==
    /\ main_pc = "for"
    /\ file_no = Len(vm_files)
    /\ main_pc' = IF vm_files = <<>> THEN "raised" ELSE "end"
    /\ UNCHANGED <<translator_vars, machine_vars, input_kind, vm_files, file_no, read_pos,
                   current_command, next_command, has_more_commands, presented, outputs, log>>

NextMain ==
    \/ OpenFile
    \/ LoopBody
    \/ EndWhile
    \/ CloseFile

SpecMain == InitMain /\ [][NextMain]_vars

----------------------------------------------------------------------------
(* What the claims speak of *)

Finished == phase = "done"
\* the stack pointer, and the stack's two topmost values, when the command started
PreSP == pre[0]
PreX == pre[(PreSP - 2) % AddrMod]
PreY == pre[(PreSP - 1) % AddrMod]
\* the address after the last line of the command: control fell through
FallThrough == Len(Instructions(lines))
\* every cell outside S is as it was when the command started
UnchangedOutside(S) == \A a \in Addr \ S : ram[a] = pre[a]

\* bitwise operations, by the set of bit positions that are 1
Bits(v) == {i \in 0 .. (WordBits - 1) : (v \div Pow2(i)) % 2 = 1}
RECURSIVE FromBits(_)
FromBits(S) == IF S = {} THEN 0 ELSE LET i == CHOOSE j \in S : TRUE
                                     IN  Pow2(i) + FromBits(S \ {i})

BinaryResult(op, x, y) ==
    CASE op = "add" -> (x + y) % WordMod
      [] op = "sub" -> (x - y + WordMod) % WordMod
      [] op = "and" -> FromBits(Bits(x) \cap Bits(y))
      [] op = "or" -> FromBits(Bits(x) \cup Bits(y))

\* C1: in both translators the lines of add, sub, and, or, run from SP = s >= 2 above
\* the stack base with x = RAM[s-2] and y = RAM[s-1], end with SP = s-1 and
\* RAM[s-2] = x OP y in WordBits-bit two's complement (sub: x - y), and change no
\* cell but SP and RAM[s-2].
C1_BinaryOps ==
    (Finished /\ cmd \in {<<"add">>, <<"sub">>, <<"and">>, <<"or">>} /\ PreSP >= StackBase + 2)
    => /\ ram[0] = PreSP - 1
       /\ ram[PreSP - 2] = BinaryResult(cmd[1], PreX, PreY)
       /\ UnchangedOutside({0, PreSP - 2})

C1_Witness ==
    /\ Finished /\ proj = "07" /\ cmd = <<"sub">>
    /\ PreX = 1 /\ PreY = 2 /\ ram[PreSP - 2] = MinusOne

\* C2: the lines of eq, lt, gt compute d = x - y as a word, end with SP = s-1 and
\* leave RAM[s-2] = -1 when d = 0 (eq), d < 0 (lt), d > 0 (gt), and 0 otherwise; the
\* conditional jump is the negated directive, and the two closing lines that
\* increment SP are executed exactly once.
CompHolds(op, d) ==
    CASE op = "eq" -> d = 0
      [] op = "lt" -> Signed(d) < 0
      [] op = "gt" -> Signed(d) > 0

NegatedDirective(op) == CASE op = "eq" -> "JNE" [] op = "lt" -> "JGE" [] op = "gt" -> "JLE"

C2_Comparisons ==
    (Finished /\ cmd \in {<<"eq">>, <<"lt">>, <<"gt">>})
    => LET d == (PreX - PreY + WordMod) % WordMod
           n == Len(Instructions(lines))
       IN  /\ ram[0] = PreSP - 1
           /\ ram[PreSP - 2] = (IF CompHolds(cmd[1], d) THEN MinusOne ELSE 0)
           /\ {l \in Range(lines) : IsCLine(l) /\ DecodeC[l[2]][3] \notin {"", "JMP"}}
                 = {CLine("D;" \o NegatedDirective(cmd[1]))}
           /\ visits[n - 1] = 1 /\ visits[n] = 1

C2_Witness ==
    /\ Finished /\ proj = "08" /\ cmd = <<"gt">>
    /\ PreX = 2 /\ PreY = 1 /\ ram[PreSP - 2] = MinusOne

\* the value a push of (seg, i) reads, from the memory the command started in
PushValue(seg, i) ==
    CASE seg = "constant" -> i
      [] seg \in {"local", "argument", "this", "that"} ->
            pre[(pre[CASE seg = "local" -> 1 [] seg = "argument" -> 2 [] seg = "this" -> 3
                       [] seg = "that" -> 4] + i) % AddrMod]
      [] seg = "temp" -> pre[5 + i]
      [] seg = "pointer" -> pre[3 + i]

\* C3: in both translators the lines of push seg i (seg among constant, local,
\* argument, this, that, temp, pointer), run from SP = s, end with SP = s+1 and
\* RAM[s] = the value of seg[i], every other cell unchanged.
C3_Push ==
    (Finished /\ operation(cmd) = "push")
    => /\ ram[0] = PreSP + 1
       /\ ram[PreSP] = PushValue(cmd[2], NumeralValue(cmd[3]))
       /\ UnchangedOutside({0, PreSP})

C3_Witness ==
    /\ Finished /\ proj = "07" /\ cmd = <<"push", "that", "2">>
    /\ ram[PreSP] = Fill(ThatBase + 2) /\ ram[0] = PreSP + 1

\* the address a pop to (seg, i) writes, from the memory the command started in
PopAddress(seg, i) ==
    IF seg = "temp" THEN 5 + i
    ELSE (pre[CASE seg = "local" -> 1 [] seg = "argument" -> 2 [] seg = "this" -> 3
                [] seg = "that" -> 4] + i) % AddrMod

\* C4: in both translators the lines of pop seg i (seg among local, argument, this,
\* that, temp), run from SP = s with t = RAM[s-1], end with SP = s-1 and
\* RAM[addr] = t, where addr is RAM[R] + i (as R was when the command started)
\* or 5 + i for temp.
C4_Pop ==
    (Finished /\ operation(cmd) = "pop"
        /\ cmd[2] \in {"local", "argument", "this", "that", "temp"})
    => /\ ram[0] = PreSP - 1
       /\ ram[PopAddress(cmd[2], NumeralValue(cmd[3]))] = PreY

\* pop this 2 with THIS = 4: the destination is the cell R6 that holds the address
C4_Witness ==
    /\ Finished /\ proj = "08" /\ cmd = <<"pop", "this", "2">>
    /\ pre[3] = 4 /\ ram[6] = PreY /\ PreY # pre[6]

\* C5: in both translators pop pointer 0 writes the popped value to RAM[3] (THIS)
\* and pop pointer 1 writes it to RAM[4] (THAT), nothing being added to that
\* destination.
C5_PopPointer ==
    (Finished /\ operation(cmd) = "pop" /\ cmd[2] = "pointer")
    => /\ ram[0] = PreSP - 1
       /\ ram[3 + NumeralValue(cmd[3])] = PreY

\* the address a branch to VM label l goes to: where the rest of the program
\* defines the symbol that `label l` is translated to
LabelTarget(l) == ProgramLabelAddress(Branching_translate(<<"label", l>>)[1][2])

\* C6: the lines of function f k define the label (f) and, run from SP = s, end
\* having written 0 to exactly the k cells RAM[s..s+k-1], with SP = s+k; for
\* k = 0 no cell is written and SP = s.
C6_Function ==
    (Finished /\ is_function_declaration_command(cmd))
    => LET k == NumeralValue(cmd[3])
           cells == PreSP .. (PreSP + k - 1)
       IN  /\ lines[1] = LabelLine(cmd[2])
           /\ ram[0] = PreSP + k
           /\ \A a \in cells : ram[a] = 0
           /\ written \subseteq ({0} \cup cells)
           /\ UnchangedOutside({0} \cup cells)
           /\ k = 0 => written = {}

\* C7: the lines of call f n, run from SP = s, push a return address and LCL, ARG,
\* THIS, THAT (SP = s+5), set ARG = s-n and LCL = s+5, jump to f, and define the
\* return-address label right after that jump.
C7_Call ==
    (phase \in {"done", "error"} /\ is_call_command(cmd))
    => /\ Finished
       /\ ram[0] = PreSP + 5
       /\ ram[PreSP] = FallThrough
       /\ \A i \in 1 .. 4 : ram[PreSP + i] = pre[i]
       /\ ram[2] = PreSP - NumeralValue(cmd[3])
       /\ ram[1] = PreSP + 5
       /\ IsLabelLine(lines[Len(lines)])
       /\ pc = ProgramLabelAddress(
                  Function_declaration_translation(<<"function", cmd[2], "0">>, 1)[1][2])

\* C8: the lines of return, run with FRAME = LCL, a = ARG and r = RAM[SP-1], end
\* with RAM[a] = r, SP = a+1, THAT, THIS, ARG, LCL = RAM[FRAME-1..FRAME-4] and
\* control at RAM[FRAME-5], all as they were when the command started; also when
\* the function has no argument and a = FRAME-5.
C8_Return ==
    (Finished /\ is_return_command(cmd))
    => LET frame == pre[1]
           a == pre[2]
       IN  /\ ram[a] = PreY
           /\ ram[0] = a + 1
           /\ ram[4] = pre[frame - 1]
           /\ ram[3] = pre[frame - 2]
           /\ ram[2] = pre[frame - 3]
           /\ ram[1] = pre[frame - 4]
           /\ pc = pre[frame - 5]

\* a return of a function of no argument: ARG is the cell of the return address
C8_Witness ==
    /\ Finished /\ is_return_command(cmd)
    /\ pre[2] = pre[1] - 5 /\ pc = RetAddr /\ ram[pre[2]] = PreY /\ PreY # RetAddr

\* C9: the lines of if-goto L, run from SP = s, end with SP = s-1 and control at
\* the label for L if RAM[s-1] is not 0, at the next line otherwise; the lines of
\* goto L end with control at the label for L, SP and RAM unchanged.
C9_Branch ==
    /\ (Finished /\ is_ifgoto_command(cmd))
       => /\ ram[0] = PreSP - 1
          /\ UnchangedOutside({0})
          /\ pc = (IF PreY # 0 THEN LabelTarget(cmd[2]) ELSE FallThrough)
          /\ LabelTarget(cmd[2]) # FallThrough
    /\ (Finished /\ is_goto_command(cmd))
       => /\ pc = LabelTarget(cmd[2])
          /\ ram = pre

C9_Witness ==
    /\ Finished /\ cmd = <<"if-goto", "END">>
    /\ PreY = MinInt /\ pc = LabelTarget("END") /\ ram[0] = PreSP - 1

\* the scope of the i-th translated command: the function declared last before
\* it in its file, or the file's name
ScopeOf(i) ==
    LET decls == {j \in 1 .. (i - 1) : /\ log[j].file = log[i].file
                                       /\ is_function_declaration_command(log[j].parts)}
    IN  IF decls = {} THEN vm_files[log[i].file].name
        ELSE log[CHOOSE j \in decls : \A k \in decls : k <= j].parts[2]

Mangled(i) == ScopeOf(i) \o "$" \o log[i].parts[2]

\* C10: label L in function f is emitted as (f$L), goto L and if-goto L in f jump to
\* f$L, at file top level the label is <fileBase>$L; so the labels of the same name
\* of two functions are two assembly labels.
C10_LabelScoping ==
    /\ \A i \in DOMAIN log :
          /\ is_label_command(log[i].parts) => log[i].lines = <<LabelLine(Mangled(i))>>
          /\ is_goto_command(log[i].parts) => log[i].lines[1] = ALine(Mangled(i))
          /\ is_ifgoto_command(log[i].parts) => log[i].lines[4] = ALine(Mangled(i))
    /\ \A i, j \in DOMAIN log :
          (/\ is_label_command(log[i].parts) /\ is_label_command(log[j].parts)
           /\ log[i].file = log[j].file /\ ScopeOf(i) # ScopeOf(j))
          => log[i].lines # log[j].lines

\* a comparison command
is_comp_command(c) == Len(c) = 1 /\ c[1] \in DOMAIN COMP_COMMANDS

\* how many commands of the kind of the i-th translated command (the same
\* comparison, or a function declaration) were translated before it, in any file
EarlierOfKind(i) ==
    Cardinality({j \in 1 .. (i - 1) :
                    IF is_function_declaration_command(log[i].parts)
                    THEN is_function_declaration_command(log[j].parts)
                    ELSE log[j].parts = log[i].parts})

\* the labels the translator mints for the i-th translated command
MintedLabels(i) ==
    IF is_comp_command(log[i].parts) THEN LabelsOf(log[i].lines)
    ELSE IF is_function_declaration_command(log[i].parts)
    THEN LabelsOf(log[i].lines) \ {log[i].parts[2]}
    ELSE {}

\* C11: over the commands translated in one run (one or several files), no minted
\* label is defined twice: the n-th comparison of a kind of the run defines
\* NOT_<KIND>n and INC_STACK_POINTER_<KIND>n, the n-th function declaration of the
\* run defines LOOP.ADD_LOCALS.n (n counted over the run, not per file), and no
\* minted label is a label another command defines.
C11_LabelUniqueness ==
    /\ \A i \in DOMAIN log :
          LET n == ToString(EarlierOfKind(i) + 1)
          IN  /\ is_comp_command(log[i].parts)
                 => MintedLabels(i) = {"NOT_" \o Upper(log[i].parts[1]) \o n,
                                       "INC_STACK_POINTER_" \o Upper(log[i].parts[1]) \o n}
              /\ is_function_declaration_command(log[i].parts)
                 => MintedLabels(i) = {"LOOP.ADD_LOCALS." \o n}
    /\ \A i, j \in DOMAIN log :
          i # j => MintedLabels(i) \cap LabelsOf(log[j].lines) = {}

\* a push or pop of the static segment
is_static_command(c) == is_pushpop_command(c) /\ segment(c) = "static"

\* the symbol of static variable i of the file of the i-th translated command
StaticSymbol(i) == vm_files[log[i].file].name \o "." \o index(log[i].parts)

\* what the A-lines of the i-th translated command address, the registers of the
\* stack and of the pop (SP, R5, R6) apart
AddressedSymbols(i) ==
    {l[2] : l \in {m \in Range(log[i].lines) : IsALine(m) /\ m[2] \notin DOMAIN Predefined}}

\* C12: in both translators the lines of push static i and of pop static i of file
\* F address the symbol F.i and no numeric address, so that the static commands of
\* two files of one run address no common symbol or address.
C12_StaticSymbols ==
    /\ \A i \in DOMAIN log :
          is_static_command(log[i].parts) => AddressedSymbols(i) = {StaticSymbol(i)}
    /\ \A i, j \in DOMAIN log :
          (/\ is_static_command(log[i].parts) /\ is_static_command(log[j].parts)
           /\ log[i].file # log[j].file)
          => AddressedSymbols(i) \cap AddressedSymbols(j) = {}

RECURSIVE Flatten(_)
Flatten(ss) == IF ss = <<>> THEN <<>> ELSE Head(ss) \o Flatten(Tail(ss))

\* every line the run has written, and the lines translated from the input files
AllWritten == Flatten(outputs)
FromFiles == Flatten([i \in DOMAIN log |-> log[i].lines])

\* lines that set SP to 256
BootstrapSP == <<ALine("256"), CLine("D=A"), ALine("SP"), CLine("M=D")>>

\* C13: when the run on a directory has ended, what it wrote begins with the lines
\* that set SP to 256, then the lines of call Sys.init 0, and only then the lines
\* translated from the input files; when the run on a single file has ended, it
\* wrote the lines translated from the file and nothing else.
C13_Bootstrap ==
    main_pc = "end"
    => IF input_kind = "dir"
       THEN LET k == Len(AllWritten) - Len(FromFiles)
            IN  /\ k > Len(BootstrapSP)
                /\ SubSeq(AllWritten, 1, Len(BootstrapSP)) = BootstrapSP
                /\ SubSeq(AllWritten, k + 1, Len(AllWritten)) = FromFiles
       ELSE AllWritten = FromFiles

\* the place of a file name in the lexicographic order of the names
Rank(name) == IF name = "Alpha" THEN 1 ELSE 2

\* C14: in a run on a directory the files are translated in the lexicographic order
\* of their names, whatever the order of the listing, and when the run has ended
\* there is one output, holding the translations of all the files in that order.
C14_OneOrderedOutput ==
    input_kind = "dir"
    => /\ \A i, j \in DOMAIN log :
             i < j => Rank(vm_files[log[i].file].name) <= Rank(vm_files[log[j].file].name)
       /\ main_pc = "end" => (Len(outputs) = 1 /\ outputs[1] = FromFiles)

\* the translation of the command of parts c raises in the running main program
Raises(c) == IF proj = "07" THEN Raises07(c) ELSE Raises08(c)

\* the main program has just processed a line (and is in the file of that line)
Processed == main_pc \in {"while", "raised"} /\ current_command # NoCommand

\* a line that is empty, of blanks only, or a comment that blanks may precede
IgnoredLine(raw_text) == raw_text # EndOfFile /\ raw_text.words = <<>>

\* C15: in both main programs a line that is empty, of blanks only, or a comment
\* (blanks may precede it) raises no error and has no lines written for it, and a
\* command followed by a comment is translated as the command alone.
C15_IgnoredLines ==
    /\ \A i \in DOMAIN log : ~IgnoredLine(log[i].raw_text)
    /\ (Processed /\ IgnoredLine(current_command.raw_text)) => main_pc # "raised"
    /\ (Processed /\ current_command.raw_text.comment
            /\ current_command.raw_text.words # <<>>)
       => /\ current_command.parts = current_command.raw_text.words
          /\ ~Raises(current_command.raw_text.words) => main_pc # "raised"

\* a push or pop that names no cell: a pointer index other than 0 and 1, a temp
\* index above 7, a segment that is none of the eight, or a pop to constant
NamesNoCell(c) ==
    /\ is_pushpop_command(c)
    /\ Len(c) = 3
    /\ \/ segment(c) = "pointer" /\ index(c) \notin Num(0 .. 1)
       \/ segment(c) = "temp" /\ index(c) \notin Num(0 .. 7)
       \/ segment(c) \notin {"constant", "local", "argument", "this", "that", "pointer",
                             "temp", "static"}
       \/ operation(c) = "pop" /\ segment(c) = "constant"

\* C16: in both main programs a push or pop that names no cell has no lines written
\* for it, and the run stops at it with an error (so that no later command is
\* translated).
C16_Rejected ==
    /\ \A i \in DOMAIN log : ~NamesNoCell(log[i].parts)
    /\ (Processed /\ NamesNoCell(current_command.parts)) => main_pc = "raised"

IsPrefix(p, q) == Len(p) <= Len(q) /\ p = SubSeq(q, 1, Len(p))

\* C17: in both main programs, while a file of n >= 0 lines is read, the lines
\* advance() has made the current command are the first lines of the file, each
\* once and in order; when the loop ends they are all n lines; and for an
\* empty file nothing is made the current command and handed to a translator.
C17_DriverLoop ==
    (main_pc \in {"while", "raised"} /\ file_no < Len(vm_files))
    => LET file_lines == vm_files[file_no + 1].lines
       IN  /\ IsPrefix(presented, file_lines)
           /\ ~has_more_commands => presented = file_lines
           /\ file_lines = <<>> => (presented = <<>> /\ main_pc # "raised")

\* the cells of the temp segment
TempCells == {5 + i : i \in 0 .. 7}

\* C18: in both translators the lines of a command change no cell of the temp
\* segment, but for the lines of pop temp i, which change RAM[5+i] alone; so a
\* value popped to temp 0 or temp 1 outlives every other pop and every return.
C18_TempKept ==
    Finished
    => \A a \in TempCells :
          ram[a] # pre[a] => cmd = <<"pop", "temp", ToString(a - 5)>>

\* C19: in both translators the lines of lt and gt leave -1 exactly when x < y,
\* x > y as signed words, and 0 otherwise, for all words x and y, also when the
\* difference x - y overflows.
C19_SignedComparisons ==
    (Finished /\ cmd \in {<<"lt">>, <<"gt">>})
    => ram[PreSP - 2] =
          (IF \/ cmd = <<"lt">> /\ Signed(PreX) < Signed(PreY)
              \/ cmd = <<"gt">> /\ Signed(PreX) > Signed(PreY)
           THEN MinusOne ELSE 0)

====
